---- MODULE Spec2Model ----
(***************************************************************************)
(* Model of the travel-planner API's weather pipeline:                     *)
(*   OpenMeteoClient.getWeatherForecast -> WeatherService.mapToForecast    *)
(*   -> ActivityService.rankActivities -> activityRanking response.        *)
(*                                                                         *)
(* Numbers.  The hourly samples of the model are whole numbers (a subset   *)
(* of the doubles the provider can send), so every sum the code forms is   *)
(* exact and an average is the exact rational sum/length, kept as          *)
(* [nan, num, den].  A comparison of an average with a threshold is the    *)
(* comparison of the two rationals.  A field that reads `undefined` in     *)
(* JavaScript is the empty tuple, a present number v is <<v>>; adding      *)
(* undefined to a number gives NaN, and every comparison with NaN is       *)
(* false, as in the code.                                                  *)
(*                                                                         *)
(* Text.  Reason strings are built as the code builds them; the two        *)
(* non-ASCII characters of the templates are written in ASCII (the degree  *)
(* sign is dropped, the em dash is "-").                                   *)
(***************************************************************************)
EXTENDS Integers, Sequences, FiniteSets, TLC

VARIABLES
  pc,          \* where the activityRanking request stands
  city,        \* the City built from the request's coordinates
  raw,         \* the provider payload getWeatherForecast resolved with
  forecast,    \* the WeatherForecast mapToForecast returned
  activities,  \* the list rankActivities returned
  error,       \* the error the request rejected with
  fetches,     \* calls of client.getWeatherForecast made for the request
  thrown,      \* the error client.getWeatherForecast rejected with
  calls,       \* calls of rankActivities made on the forecast
  inflight,    \* the activityRanking requests served at the same time
  suggestion   \* the citySuggestions request

vars ==
  <<pc, city, raw, forecast, activities, error, fetches, thrown, calls,
    inflight, suggestion>>

\* the state of the activityRanking request
rankingRequest == <<pc, city, raw, forecast, activities, error, fetches, thrown, calls>>

\* the requests an activityRanking request shares the services with
otherRequests == <<inflight, suggestion>>

-----------------------------------------------------------------------------
(* JavaScript values *)

Undefined == <<>>

Some(v) == <<v>>

IsDefined(x) == x # Undefined

AtOffByOne(arr, i) == IF i + 1 <= Len(arr) THEN Some(arr[i + 1]) ELSE Undefined

\* arr[i] on a JavaScript array (0-based there, 1-based here): an index past
\* the end reads undefined, it does not throw.
At(arr, i) == IF i >= 1 /\ i <= Len(arr) THEN Some(arr[i]) ELSE Undefined

NaN == [nan |-> TRUE, num |-> 0, den |-> 1]

Num(n) == [nan |-> FALSE, num |-> n, den |-> 1]

\* the literal p/q, q > 0 (0.5 is Frac(1, 2))
Frac(p, q) == [nan |-> FALSE, num |-> p, den |-> q]

\* n / d as JavaScript divides: 0 / 0 is NaN (d = 0 only arises with n = 0)
Div(n, d) == IF d = 0 THEN NaN ELSE Frac(n, d)

Lt(a, b) == ~a.nan /\ ~b.nan /\ a.num * b.den < b.num * a.den

LeStrict(a, b) == ~a.nan /\ ~b.nan /\ a.num * b.den < b.num * a.den

Le(a, b) == ~a.nan /\ ~b.nan /\ a.num * b.den <= b.num * a.den

GtOrEqual(a, b) == Le(b, a)

Gt(a, b) == Lt(b, a)

Ge(a, b) == Le(b, a)

Max(a, b) == IF a >= b THEN a ELSE b

Min(a, b) == IF a <= b THEN a ELSE b

-----------------------------------------------------------------------------
(* Strings *)

IsSpace(c) == c = " "

RECURSIVE TrimStart(_)
TrimStart(s) ==
  IF Len(s) > 0 /\ IsSpace(SubSeq(s, 1, 1)) THEN TrimStart(SubSeq(s, 2, Len(s))) ELSE s

RECURSIVE TrimEnd(_)
TrimEnd(s) ==
  IF Len(s) > 0 /\ IsSpace(SubSeq(s, Len(s), Len(s)))
  THEN TrimEnd(SubSeq(s, 1, Len(s) - 1)) ELSE s

TrimStartOnly(s) == TrimStart(s)

\* String.prototype.trim
Trim(s) == TrimEnd(TrimStart(s))

\* Array.prototype.join
RECURSIVE Join(_, _)
Join(parts, sep) ==
  IF Len(parts) = 0 THEN ""
  ELSE IF Len(parts) = 1 THEN parts[1]
  ELSE parts[1] \o sep \o Join(Tail(parts), sep)

Abs(n) == IF n < 0 THEN -n ELSE n

RECURSIVE Pow10(_)
Pow10(k) == IF k = 0 THEN 1 ELSE 10 * Pow10(k - 1)

RECURSIVE Digits(_, _)
\* n >= 0 written with exactly `width` decimal digits
Digits(n, width) ==
  IF width = 0 THEN "" ELSE Digits(n \div 10, width - 1) \o ToString(n % 10)

\* Number.prototype.toFixed(digits): the decimal with `digits` fraction digits
\* nearest to the value, a tie going away from zero; the sign is the value's.
\* (Computed on the exact average; a double that only approximates a tie such
\* as 0.15 may print its last digit one lower.  No score depends on it.)
ToFixed(a, digits) ==
  IF a.nan THEN "NaN"
  ELSE LET scaled  == Abs(a.num) * Pow10(digits)
           q       == scaled \div a.den
           r       == scaled % a.den
           rounded == IF 2 * r >= a.den THEN q + 1 ELSE q
           sign    == IF a.num < 0 THEN "-" ELSE ""
       IN  IF digits = 0
           THEN sign \o ToString(rounded)
           ELSE sign \o ToString(rounded \div Pow10(digits)) \o "."
                  \o Digits(rounded % Pow10(digits), digits)

-----------------------------------------------------------------------------
(* ActivityService: helpers *)

RECURSIVE SumFrom(_, _)
\* values.reduce((sum, v) => sum + v, 0): number + undefined is NaN
SumFrom(values, i) ==
  IF i > Len(values) THEN Num(0)
  ELSE LET rest == SumFrom(values, i + 1)
       IN  IF rest.nan \/ ~IsDefined(values[i]) THEN NaN
           ELSE Num(values[i][1] + rest.num)

AverageNoGuard(values) ==
  LET s == SumFrom(values, 1)
  IN  IF s.nan THEN NaN ELSE Div(s.num, Len(values))

AverageSum(values) == SumFrom(values, 1)

average(values) ==
  IF Len(values) = 0 THEN Num(0)
  ELSE LET s == SumFrom(values, 1)
       IN  IF s.nan THEN NaN ELSE Div(s.num, Len(values))

\* hours.map(h => h.<field>)
temperatures(hours) == [i \in 1..Len(hours) |-> hours[i].temperature2m]

windspeeds(hours) == [i \in 1..Len(hours) |-> hours[i].windspeed10m]

precipitations(hours) == [i \in 1..Len(hours) |-> hours[i].precipitation]

snowDepthsDeepDefault(hours) ==
  [i \in 1..Len(hours) |->
     IF IsDefined(hours[i].snowDepth) THEN hours[i].snowDepth ELSE Some(30)]

\* hours.map(h => h.snowDepth ?? 0)
snowDepths(hours) ==
  [i \in 1..Len(hours) |->
     IF IsDefined(hours[i].snowDepth) THEN hours[i].snowDepth ELSE Some(0)]

\* hours.filter(h => h.weathercode <= 3).length  (undefined <= 3 is false)
clearHours(hours) ==
  Cardinality({i \in 1..Len(hours) :
                 IsDefined(hours[i].weathercode) /\ hours[i].weathercode[1] <= 3})

ClampNoFloor(score) == Min(100, score)

\* Math.min(100, Math.max(0, score))
Clamp(score) == Min(100, Max(0, score))

SuitableStrict(score) == score > 60

\* suitable: score >= 60
Suitable(score) == score >= 60

StartZero(base) == [score |-> 0, reasons |-> <<>>]

\* the running state of one scorer: `let score` and `const reasons`
Start(base) == [score |-> base, reasons |-> <<>>]

AddFirst(st, points, text) ==
  [score |-> st.score + points, reasons |-> <<text>> \o st.reasons]

AddFloored(st, points, text) ==
  [score |-> Max(0, st.score + points), reasons |-> Append(st.reasons, text)]

\* score += points; reasons.push(text)
Add(st, points, text) ==
  [score |-> st.score + points, reasons |-> Append(st.reasons, text)]

\* reasons.push(text)
Push(st, text) == [st EXCEPT !.reasons = Append(@, text)]

SubUnfloored(st, points, text) ==
  [score |-> st.score - points, reasons |-> Append(st.reasons, text)]

SubIgnored(st, points, text) ==
  [score |-> st.score, reasons |-> Append(st.reasons, text)]

SubAdded(st, points, text) ==
  [score |-> Max(0, st.score + points), reasons |-> Append(st.reasons, text)]

\* score = Math.max(0, score - points); reasons.push(text)
SubFloored(st, points, text) ==
  [score |-> Max(0, st.score - points), reasons |-> Append(st.reasons, text)]

\* the object literal every scorer returns
Activity(type, name, st) ==
  LET score == Clamp(st.score)
  IN  [type |-> type, name |-> name, score |-> score,
       suitable |-> Suitable(score), reason |-> Join(st.reasons, "; ")]

-----------------------------------------------------------------------------
(* ActivityService: the four scorers *)

scoreSkiing(hours) ==
  LET avgTemp     == average(temperatures(hours))
      avgWind     == average(windspeeds(hours))
      avgSnow     == average(snowDepths(hours))
      totalPrecip == average(precipitations(hours))
      s0 == Start(0)
      s1 == IF Ge(avgTemp, Num(-20)) /\ Le(avgTemp, Num(2))
            THEN Add(s0, IF Le(avgTemp, Num(-2)) THEN 35 ELSE 20,
                     "temperature " \o ToFixed(avgTemp, 1) \o "C is "
                       \o (IF Le(avgTemp, Num(-2)) THEN "ideal" ELSE "marginal")
                       \o " for snow")
            ELSE Push(s0, "temperature " \o ToFixed(avgTemp, 1) \o "C is too "
                            \o (IF Gt(avgTemp, Num(2)) THEN "warm" ELSE "extreme")
                            \o " for skiing")
      s2 == IF Ge(avgSnow, Num(30))
            THEN Add(s1, 40, "good snow depth (" \o ToFixed(avgSnow, 0) \o " cm)")
            ELSE IF Ge(avgSnow, Num(10))
            THEN Add(s1, 20, "moderate snow depth (" \o ToFixed(avgSnow, 0) \o " cm)")
            ELSE Push(s1, "insufficient snow depth")
      s3 == IF Gt(avgWind, Num(60))
            THEN SubFloored(s2, 30,
                   "high winds (" \o ToFixed(avgWind, 0) \o " km/h) are dangerous")
            ELSE IF Le(avgWind, Num(30))
            THEN Add(s2, 15, "calm winds")
            ELSE s2
      s4 == IF Gt(totalPrecip, Num(0)) /\ Le(totalPrecip, Num(2)) /\ Lt(avgTemp, Num(0))
            THEN Add(s3, 10, "light snowfall expected (fresh powder)")
            ELSE s3
  IN  Activity("SKIING", "Skiing", s4)

scoreSurfing(hours) ==
  LET avgTemp   == average(temperatures(hours))
      avgWind   == average(windspeeds(hours))
      avgPrecip == average(precipitations(hours))
      s0 == Start(0)
      s1 == IF Ge(avgTemp, Num(18)) /\ Le(avgTemp, Num(32))
            THEN Add(s0, 30, "comfortable air temperature (" \o ToFixed(avgTemp, 1) \o "C)")
            ELSE IF Ge(avgTemp, Num(12))
            THEN Add(s0, 15,
                   "cool but manageable temperature (" \o ToFixed(avgTemp, 1) \o "C)")
            ELSE Push(s0, "cold temperature (" \o ToFixed(avgTemp, 1)
                            \o "C) makes surfing uncomfortable")
      s2 == IF Ge(avgWind, Num(10)) /\ Le(avgWind, Num(30))
            THEN Add(s1, 40, "ideal wind speed (" \o ToFixed(avgWind, 0) \o " km/h) for waves")
            ELSE IF Gt(avgWind, Num(30)) /\ Le(avgWind, Num(50))
            THEN Add(s1, 15, "strong winds (" \o ToFixed(avgWind, 0)
                               \o " km/h) - experienced surfers only")
            ELSE IF Lt(avgWind, Num(10))
            THEN Add(s1, 20, "light winds (" \o ToFixed(avgWind, 0)
                               \o " km/h) - flat water likely")
            ELSE SubFloored(s1, 20, "dangerous winds (" \o ToFixed(avgWind, 0) \o " km/h)")
      s3 == IF Lt(avgPrecip, Num(1))
            THEN Add(s2, 20, "dry conditions")
            ELSE IF Lt(avgPrecip, Num(5))
            THEN Add(s2, 10, "light rain expected")
            ELSE Add(s2, -10, "heavy rain expected")
      \* clearHours / hours.length: 0 / 0 is NaN on an empty window
      clearRatio == Div(clearHours(hours), Len(hours))
      s4 == IF Ge(clearRatio, Frac(6, 10))
            THEN Add(s3, 10, "mostly clear skies")
            ELSE s3
  IN  Activity("SURFING", "Surfing", s4)

FallbackNever(st) == st

\* if (reasons.length === 0) reasons.push(<generic message>)
Fallback(st) ==
  IF Len(st.reasons) = 0
  THEN Push(st, "moderate conditions - both indoor and outdoor activities viable")
  ELSE st

scoreIndoorSightseeing(hours) ==
  LET avgPrecip == average(precipitations(hours))
      avgTemp   == average(temperatures(hours))
      avgWind   == average(windspeeds(hours))
      s0 == Start(50)
      s1 == IF Ge(avgPrecip, Num(5))
            THEN Add(s0, 30, "heavy rain (" \o ToFixed(avgPrecip, 1)
                               \o " mm/h) makes indoors appealing")
            ELSE IF Ge(avgPrecip, Num(2))
            THEN Add(s0, 15, "moderate rain expected")
            ELSE s0
      s2 == IF Lt(avgTemp, Num(0))
            THEN Add(s1, 20, "freezing temperatures (" \o ToFixed(avgTemp, 1)
                               \o "C) favour indoor activities")
            ELSE IF Gt(avgTemp, Num(35))
            THEN Add(s1, 15, "extreme heat (" \o ToFixed(avgTemp, 1)
                               \o "C) - air-conditioned venues recommended")
            ELSE s1
      s3 == IF Gt(avgWind, Num(60))
            THEN Add(s2, 15, "strong winds make outdoor activities unsafe")
            ELSE s2
      s4 == IF Lt(avgPrecip, Num(1)) /\ Ge(avgTemp, Num(18)) /\ Le(avgTemp, Num(28))
               /\ Lt(avgWind, Num(20))
            THEN Add(s3, -15, "beautiful outdoor conditions - consider going outside!")
            ELSE s3
      s5 == Fallback(s4)
  IN  Activity("INDOOR_SIGHTSEEING", "Indoor Sightseeing", s5)

scoreOutdoorSightseeing(hours) ==
  LET avgTemp    == average(temperatures(hours))
      avgWind    == average(windspeeds(hours))
      avgPrecip  == average(precipitations(hours))
      clearRatio == Div(clearHours(hours), Max(Len(hours), 1))
      s0 == Start(0)
      s1 == IF Ge(avgTemp, Num(15)) /\ Le(avgTemp, Num(28))
            THEN Add(s0, 35, "pleasant temperature (" \o ToFixed(avgTemp, 1) \o "C)")
            ELSE IF Ge(avgTemp, Num(5)) /\ Lt(avgTemp, Num(15))
            THEN Add(s0, 20, "cool but walkable (" \o ToFixed(avgTemp, 1)
                               \o "C) - bring a jacket")
            ELSE IF Gt(avgTemp, Num(28)) /\ Le(avgTemp, Num(35))
            THEN Add(s0, 15, "warm (" \o ToFixed(avgTemp, 1) \o "C) - stay hydrated")
            ELSE Push(s0, "temperature (" \o ToFixed(avgTemp, 1)
                            \o "C) is not ideal for outdoor sightseeing")
      s2 == IF Ge(clearRatio, Frac(7, 10))
            THEN Add(s1, 30, "mostly clear skies")
            ELSE IF Ge(clearRatio, Frac(4, 10))
            THEN Add(s1, 15, "partly cloudy")
            ELSE Push(s1, "overcast conditions")
      s3 == IF Lt(avgPrecip, Frac(1, 2))
            THEN Add(s2, 25, "dry conditions")
            ELSE IF Lt(avgPrecip, Num(2))
            THEN Add(s2, 10, "light rain possible - bring an umbrella")
            ELSE Add(s2, -15, "rain expected (" \o ToFixed(avgPrecip, 1) \o " mm/h)")
      s4 == IF Gt(avgWind, Num(50))
            THEN Add(s3, -20, "strong winds (" \o ToFixed(avgWind, 0) \o " km/h)")
            ELSE IF Lt(avgWind, Num(20))
            THEN Add(s3, 10, "calm winds")
            ELSE s3
  IN  Activity("OUTDOOR_SIGHTSEEING", "Outdoor Sightseeing", s4)

-----------------------------------------------------------------------------
(* ActivityService.rankActivities *)

WindowHours == 24

\* Array.prototype.slice(0, end)
slice(arr, end) == SubSeq(arr, 1, Min(end, Len(arr)))

next24hWhole(fc) == fc.hourly

next24h(fc) == slice(fc.hourly, WindowHours)

scoreAllTwice(hours) ==
  << scoreSkiing(hours), scoreSurfing(hours),
     scoreOutdoorSightseeing(hours), scoreOutdoorSightseeing(hours) >>

scoreAllShared(hours) ==
  LET outdoor == scoreOutdoorSightseeing(hours)
      indoor  == scoreIndoorSightseeing(hours)
  IN  << scoreSkiing(hours), scoreSurfing(hours),
         [indoor EXCEPT !.score = Clamp(100 - outdoor.score)], outdoor >>

\* the array literal of the four scorers' results, in evaluation order
scoreAll(hours) ==
  << scoreSkiing(hours), scoreSurfing(hours),
     scoreIndoorSightseeing(hours), scoreOutdoorSightseeing(hours) >>

\* the comparator (a, b) => b.score - a.score
compare(a, b) == b.score - a.score

RECURSIVE InsertAfterEqual(_, _)
\* a goes behind every element that does not compare after it
InsertAfterEqual(sorted, a) ==
  IF Len(sorted) = 0 THEN <<a>>
  ELSE IF compare(Head(sorted), a) <= 0
       THEN <<Head(sorted)>> \o InsertAfterEqual(Tail(sorted), a)
       ELSE <<a>> \o sorted

RECURSIVE InsertBeforeEqual(_, _)
InsertBeforeEqual(sorted, a) ==
  IF Len(sorted) = 0 THEN <<a>>
  ELSE IF compare(Head(sorted), a) < 0
       THEN <<Head(sorted)>> \o InsertBeforeEqual(Tail(sorted), a)
       ELSE <<a>> \o sorted

RECURSIVE SortFrom(_, _, _)
SortFrom(list, i, sorted) ==
  IF i > Len(list) THEN sorted
  ELSE SortFrom(list, i + 1, InsertAfterEqual(sorted, list[i]))

RECURSIVE SortUnstableFrom(_, _, _)
SortUnstableFrom(list, i, sorted) ==
  IF i > Len(list) THEN sorted
  ELSE SortUnstableFrom(list, i + 1, InsertBeforeEqual(sorted, list[i]))

sortUnstable(list) == SortUnstableFrom(list, 1, <<>>)

sortNot(list) == list

\* Array.prototype.sort with the comparator: a stable sort (ECMAScript 2019)
sort(list) == SortFrom(list, 1, <<>>)

rankActivities(fc) == sort(scoreAll(next24h(fc)))

afterSplice(arr, end) == SubSeq(arr, Min(end, Len(arr)) + 1, Len(arr))

\* the array slice(0, end) was called on: slice copies, the array stays
afterSlice(arr, end) == arr

\* the forecast after rankActivities(fc): only `forecast.hourly.slice` touches
\* it; the scorers read the copy and sort() orders the new `activities` array
forecastAfterRank(fc) == [fc EXCEPT !.hourly = afterSlice(@, WindowHours)]

-----------------------------------------------------------------------------
(* WeatherService.mapToForecast *)

\* raw.hourly.snow_depth?.[i]
OptionalAt(optArr, i) == IF IsDefined(optArr) THEN At(optArr[1], i) ELSE Undefined

snowDepthOrZero(optArr, i) ==
  IF IsDefined(OptionalAt(optArr, i)) THEN OptionalAt(optArr, i) ELSE Some(0)

snowDepthAt(optArr, i) == OptionalAt(optArr, i)

mapCurrent(r) ==
  [time          |-> r.current.time,
   temperature2m |-> Some(r.current.temperature_2m),
   windspeed10m  |-> Some(r.current.windspeed_10m),
   precipitation |-> Some(r.current.precipitation),
   weathercode   |-> Some(r.current.weathercode)]

mapHourly(r) ==
  [i \in 1..Len(r.hourly.time) |->
     [time          |-> r.hourly.time[i],
      temperature2m |-> At(r.hourly.temperature_2m, i),
      windspeed10m  |-> At(r.hourly.windspeed_10m, i),
      precipitation |-> At(r.hourly.precipitation, i),
      weathercode   |-> At(r.hourly.weathercode, i),
      snowDepth     |-> snowDepthAt(r.hourly.snow_depth, i)]]

mapDaily(r) ==
  [i \in 1..Len(r.daily.time) |->
     [date             |-> r.daily.time[i],
      temperatureMax   |-> At(r.daily.temperature_2m_max, i),
      temperatureMin   |-> At(r.daily.temperature_2m_min, i),
      precipitationSum |-> At(r.daily.precipitation_sum, i),
      windspeedMax     |-> At(r.daily.windspeed_10m_max, i),
      weathercode      |-> At(r.daily.weathercode, i)]]

mapToForecast(c, r) ==
  [city     |-> c,
   current  |-> mapCurrent(r),
   hourly   |-> mapHourly(r),
   daily    |-> mapDaily(r),
   timezone |-> r.timezone]

-----------------------------------------------------------------------------
(* The provider's payloads (OpenMeteoForecastResponse) the model draws from *)

MaxShortHours == 2

MaxExtraHours == 1

MaxDays == 2

\* hourly horizons: next to empty, and around the 24-hour window
HourCounts ==
  (0..MaxShortHours) \cup ((WindowHours - 1)..(WindowHours + MaxExtraHours))

Temps == {-8, 1, 16, 22, 38}

Winds == {8, 25, 45, 70}

Precips == {0, 1, 3, 6}

Codes == {1, 61}

Snows == {0, 15, 40}

Samples == [t : Temps, w : Winds, p : Precips, c : Codes, s : Snows]

\* the samples that also appear in mixed and in misaligned payloads
CoreSamples == [t : {-8, 22}, w : {8, 70}, p : {0, 1, 6}, c : {1, 61}, s : {0, 40}]

\* what the later hours of a mixed payload hold
LateSamples ==
  { [t |-> 22, w |-> 8, p |-> 0, c |-> 1, s |-> 0],
    [t |-> -8, w |-> 70, p |-> 6, c |-> 61, s |-> 40] }

Shapes ==
  { "aligned", "noSnowDepth", "shortTemperature", "shortWeathercode",
    "shortSnowDepth", "shortDaily" }

Cities ==
  { [latitude |-> -34, longitude |-> 18, timezone |-> "Africa/Johannesburg"],
    [latitude |-> 47, longitude |-> 11, timezone |-> "UTC"] }

\* the array without its last element
Short(arr) == IF Len(arr) = 0 THEN arr ELSE SubSeq(arr, 1, Len(arr) - 1)

\* the payload with n hours: `early` up to hour k, `late` after it
Payload(tz, n, k, early, late, shape) ==
  LET h(i)   == IF i <= k THEN early ELSE late
      cut(b, arr) == IF b THEN Short(arr) ELSE arr
  IN  [timezone |-> tz,
       current  |-> [time |-> 0, temperature_2m |-> early.t, windspeed_10m |-> early.w,
                     precipitation |-> early.p, weathercode |-> early.c],
       hourly   |->
         [time           |-> [i \in 1..n |-> i],
          temperature_2m |-> cut(shape = "shortTemperature", [i \in 1..n |-> h(i).t]),
          windspeed_10m  |-> [i \in 1..n |-> h(i).w],
          precipitation  |-> [i \in 1..n |-> h(i).p],
          weathercode    |-> cut(shape = "shortWeathercode", [i \in 1..n |-> h(i).c]),
          snow_depth     |-> IF shape = "noSnowDepth" THEN Undefined
                             ELSE Some(cut(shape = "shortSnowDepth",
                                           [i \in 1..n |-> h(i).s]))],
       daily    |->
         [time               |-> [d \in 1..MaxDays |-> d],
          temperature_2m_max |-> cut(shape = "shortDaily",
                                     [d \in 1..MaxDays |-> early.t + 5]),
          temperature_2m_min |-> [d \in 1..MaxDays |-> early.t - 5],
          precipitation_sum  |-> [d \in 1..MaxDays |-> early.p * d],
          windspeed_10m_max  |-> [d \in 1..MaxDays |-> early.w + 10],
          weathercode        |-> [d \in 1..MaxDays |-> early.c]]]

\* where a payload of n hours may change from its early to its late sample:
\* nowhere (n), in the middle of the hours, or right behind the window
Splits(n) ==
  {n} \cup (IF n >= 2 THEN {n \div 2} ELSE {})
      \cup (IF n > WindowHours THEN {WindowHours} ELSE {})

\* one full day of every sample; the core samples at every horizon, alone or
\* followed by a late sample; the core samples in every misaligned shape
Payloads(tz) ==
  { Payload(tz, WindowHours, WindowHours, e, e, "aligned") : e \in Samples }
  \cup
  UNION { UNION { { Payload(tz, n, k, e, l, "aligned") : e \in CoreSamples }
                  : k \in Splits(n), l \in LateSamples }
          : n \in HourCounts }
  \cup
  { Payload(tz, n, n, e, e, sh) : n \in HourCounts, e \in CoreSamples, sh \in Shapes }
  \cup
  \* the provider answers in its default timezone
  { Payload("GMT", 1, 1, e, e, "aligned") : e \in LateSamples }

-----------------------------------------------------------------------------
(* Payloads around the thresholds of the scorers *)

\* the hours of a threshold payload (fewer than a day: all of them are scored)
BandHours == 10

\* both sides of every temperature threshold of the four scorers
BandTemps ==
  {-21, -20, -2, -1, 0, 2, 3, 4, 5, 11, 12, 14, 15, 17, 18, 28, 29, 32, 33, 35, 36}

\* both sides of every wind threshold of the four scorers
BandWinds == {9, 10, 19, 20, 30, 31, 50, 51, 60, 61}

\* precipitation: `first` mm in each of the first k hours, `rest` mm in the
\* others; with 10 hours the means are 0, 0.4, 0.5, 0.9, 1, 1.9, 2, 2.1, 4.9, 5
PrecipMixes ==
  { [first |-> 0, rest |-> 0, k |-> 0], [first |-> 1, rest |-> 0, k |-> 4],
    [first |-> 1, rest |-> 0, k |-> 5], [first |-> 1, rest |-> 0, k |-> 9],
    [first |-> 1, rest |-> 1, k |-> 0], [first |-> 2, rest |-> 1, k |-> 9],
    [first |-> 2, rest |-> 2, k |-> 0], [first |-> 3, rest |-> 2, k |-> 1],
    [first |-> 4, rest |-> 5, k |-> 1], [first |-> 5, rest |-> 5, k |-> 0] }

\* snow depth `snow` in the first `have` entries of snow_depth (the array is
\* absent when have = 0), and `clear` hours of clear sky followed by rain
BandSkies ==
  { [snow |-> 0,  have |-> BandHours, clear |-> 0],
    [snow |-> 9,  have |-> BandHours, clear |-> 3],
    [snow |-> 10, have |-> BandHours, clear |-> 4],
    [snow |-> 29, have |-> BandHours, clear |-> 5],
    [snow |-> 30, have |-> BandHours, clear |-> 6],
    [snow |-> 40, have |-> 0,         clear |-> 7],
    [snow |-> 60, have |-> 5,         clear |-> BandHours] }

\* the payload of n hours at temperature t and wind w
BandPayload(tz, n, t, w, mix, sky) ==
  LET p(i) == IF i <= mix.k THEN mix.first ELSE mix.rest
      c(i) == IF i <= sky.clear THEN 1 ELSE 61
  IN  [timezone |-> tz,
       current  |-> [time |-> 0, temperature_2m |-> t, windspeed_10m |-> w,
                     precipitation |-> p(1), weathercode |-> c(1)],
       hourly   |->
         [time           |-> [i \in 1..n |-> i],
          temperature_2m |-> [i \in 1..n |-> t],
          windspeed_10m  |-> [i \in 1..n |-> w],
          precipitation  |-> [i \in 1..n |-> p(i)],
          weathercode    |-> [i \in 1..n |-> c(i)],
          snow_depth     |-> IF sky.have = 0 THEN Undefined
                             ELSE Some([i \in 1..Min(n, sky.have) |-> sky.snow])],
       daily    |->
         [time               |-> <<1>>,
          temperature_2m_max |-> <<t + 5>>,
          temperature_2m_min |-> <<t - 5>>,
          precipitation_sum  |-> <<mix.first + mix.rest>>,
          windspeed_10m_max  |-> <<w + 10>>,
          weathercode        |-> <<c(1)>>]]

\* every combination of the threshold values, and the payload without hours
BandPayloads(tz) ==
  { BandPayload(tz, BandHours, t, w, mix, sky) :
      t \in BandTemps, w \in BandWinds, mix \in PrecipMixes, sky \in BandSkies }
  \cup
  { BandPayload(tz, 0, 0, 0, mix, sky) :
      mix \in {m \in PrecipMixes : m.k = 0 /\ m.first = 0},
      sky \in {k \in BandSkies : k.have = 0} }

-----------------------------------------------------------------------------
(* OpenMeteoClient.normaliseError *)

\* what the transport (axios) may throw: an AxiosError with a response (HTTP
\* status, possibly a `reason` in the body) or without one (network failure,
\* timeout), another Error, or a value that is no Error
TransportErrors ==
  { [kind |-> "AxiosError", message |-> "Request failed with status code 500",
     response |-> Some([status |-> 500, reason |-> Some("Server error")])],
    [kind |-> "AxiosError", message |-> "Request failed with status code 400",
     response |-> Some([status |-> 400, reason |-> Undefined])],
    [kind |-> "AxiosError", message |-> "Request failed with status code 404",
     response |-> Some([status |-> 404, reason |-> Some("")])],
    [kind |-> "AxiosError", message |-> "Network Error", response |-> Undefined],
    [kind |-> "AxiosError", message |-> "timeout of 10000ms exceeded",
     response |-> Undefined],
    [kind |-> "Error", message |-> "socket hang up", response |-> Undefined],
    [kind |-> "other", message |-> "", response |-> Undefined] }

\* the message of the Error normaliseError(context, error) returns
normaliseError(context, e) ==
  IF e.kind = "AxiosError"
  THEN LET status == IF IsDefined(e.response)
                     THEN ToString(e.response[1].status) ELSE "undefined"
           reason == IF IsDefined(e.response) THEN e.response[1].reason ELSE Undefined
           detail == IF IsDefined(reason) /\ reason[1] # ""
                     THEN reason[1] ELSE e.message
       IN  context \o ": [" \o status \o "] " \o detail
  ELSE IF e.kind = "Error" THEN e.message
  ELSE context \o ": Unknown error"

-----------------------------------------------------------------------------
(* The activityRanking request *)

None == <<>>

\* buildCityFromCoords
buildCityFromCoords(latitude, longitude, timezone) ==
  [id          |-> 0,
   name        |-> ToFixed(Num(latitude), 4) \o ", " \o ToFixed(Num(longitude), 4),
   country     |-> "Unknown",
   countryCode |-> "",
   latitude    |-> latitude,
   longitude   |-> longitude,
   timezone    |-> timezone]

Init ==
  /\ pc = "idle"
  /\ city = None
  /\ raw = None
  /\ forecast = None
  /\ activities = None
  /\ error = None
  /\ fetches = 0
  /\ thrown = None
  /\ calls = 0
  /\ inflight = <<>>
  /\ suggestion = None

\* what client.getWeatherForecast rejects with
FetchErrors ==
  { normaliseError("Weather forecast fetch failed", e) : e \in TransportErrors }

\* activityRanking is called: the city is built and getForecast awaits the client
ActivityRanking ==
  /\ pc = "idle"
  /\ \E c \in Cities :
       city' = buildCityFromCoords(c.latitude, c.longitude, c.timezone)
  /\ pc' = "fetching"
  /\ fetches' = fetches + 1
  /\ UNCHANGED <<raw, forecast, activities, error, thrown, calls>>
  /\ UNCHANGED otherRequests

\* client.getWeatherForecast resolves with a payload
GetWeatherForecastOk ==
  /\ pc = "fetching"
  /\ \E payload \in Payloads(city.timezone) : raw' = payload
  /\ pc' = "fetched"
  /\ UNCHANGED <<city, forecast, activities, error, fetches, thrown, calls>>
  /\ UNCHANGED otherRequests

GetWeatherForecastRetried ==
  /\ pc = "fetching"
  /\ fetches < 2
  /\ \E e \in FetchErrors : thrown' = e
  /\ fetches' = fetches + 1
  /\ UNCHANGED <<pc, city, raw, forecast, activities, error, calls>>
  /\ UNCHANGED otherRequests

\* client.getWeatherForecast rejects; getForecast and the resolver do not catch,
\* so the request rejects with the client's error
GetWeatherForecastFail ==
  /\ pc = "fetching"
  /\ \E e \in FetchErrors :
       /\ thrown' = e
       /\ error' = e
  /\ pc' = "failed"
  /\ UNCHANGED <<city, raw, forecast, activities, fetches, calls>>
  /\ UNCHANGED otherRequests

\* getForecast resumes: return this.mapToForecast(city, raw)
MapToForecast ==
  /\ pc = "fetched"
  /\ forecast' = mapToForecast(city, raw)
  /\ pc' = "normalized"
  /\ UNCHANGED <<city, raw, activities, error, fetches, thrown, calls>>
  /\ UNCHANGED otherRequests

\* the resolver resumes: activityService.rankActivities(forecast), and returns
RankActivities ==
  /\ pc = "normalized"
  /\ activities' = rankActivities(forecast)
  /\ forecast' = forecastAfterRank(forecast)
  /\ calls' = calls + 1
  /\ pc' = "done"
  /\ UNCHANGED <<city, raw, error, fetches, thrown>>
  /\ UNCHANGED otherRequests

\* how often a caller ranks the same forecast again
MaxCalls == 3

\* a caller holding the forecast calls rankActivities on it once more
RankActivitiesAgain ==
  /\ pc = "done"
  /\ calls < MaxCalls
  /\ activities' = rankActivities(forecast)
  /\ forecast' = forecastAfterRank(forecast)
  /\ calls' = calls + 1
  /\ UNCHANGED <<pc, city, raw, error, fetches, thrown>>
  /\ UNCHANGED otherRequests

\* the response has been sent: the next request starts from nothing
Finish ==
  /\ pc \in {"done", "failed"}
  /\ pc' = "idle"
  /\ city' = None
  /\ raw' = None
  /\ forecast' = None
  /\ activities' = None
  /\ error' = None
  /\ fetches' = 0
  /\ thrown' = None
  /\ calls' = 0
  /\ UNCHANGED otherRequests

Next ==
  \/ ActivityRanking
  \/ GetWeatherForecastOk
  \/ GetWeatherForecastFail
  \/ MapToForecast
  \/ RankActivities
  \/ Finish

Spec == Init /\ [][Next]_vars

\* the request has fetched and normalized a threshold payload
InitBands ==
  /\ pc = "normalized"
  /\ \E c \in {k \in Cities : k.timezone = "UTC"} :
       /\ city = buildCityFromCoords(c.latitude, c.longitude, c.timezone)
       /\ \E payload \in BandPayloads(c.timezone) :
            /\ raw = payload
            /\ forecast = mapToForecast(city, payload)
  /\ activities = None
  /\ error = None
  /\ fetches = 1
  /\ thrown = None
  /\ calls = 0
  /\ inflight = <<>>
  /\ suggestion = None

NextBands == RankActivities

SpecBands == InitBands /\ [][NextBands]_vars

\* a caller holds a normalized forecast
InitRepeat ==
  /\ pc = "normalized"
  /\ \E c \in {k \in Cities : k.timezone = "UTC"} :
       /\ city = buildCityFromCoords(c.latitude, c.longitude, c.timezone)
       /\ \E payload \in Payloads(c.timezone) :
            /\ raw = payload
            /\ forecast = mapToForecast(city, payload)
  /\ activities = None
  /\ error = None
  /\ fetches = 1
  /\ thrown = None
  /\ calls = 0
  /\ inflight = <<>>
  /\ suggestion = None

NextRepeat ==
  \/ RankActivities
  \/ RankActivitiesAgain

SpecRepeat == InitRepeat /\ [][NextRepeat]_vars

-----------------------------------------------------------------------------
(* activityRanking requests served at the same time *)

\* the requests in flight
MaxRequests == 2

Requests == 1..MaxRequests

\* a request before its resolver runs
Waiting ==
  [pc |-> "idle", args |-> None, city |-> None, raw |-> None, forecast |-> None,
   activities |-> None, error |-> Undefined]

\* what the provider answers a concurrent request with: one hour, or a day
\* and an hour of another weather
ConcurrentPayloads(tz) ==
  { Payload(tz, 1, 1, e, e, "aligned") : e \in LateSamples }
  \cup
  { Payload(tz, WindowHours + 1, WindowHours, e, l, "aligned") :
      e \in LateSamples, l \in {k \in LateSamples : k.t = 22} }

cityOfLatest(reqs, r) ==
  reqs[CHOOSE q \in Requests :
         /\ reqs[q].pc # "idle"
         /\ \A o \in Requests : reqs[o].pc # "idle" => o <= q].city

\* the `city` parameter of getForecast: the caller's own value
cityArgument(reqs, r) == reqs[r].city

InitRequests ==
  /\ pc = "idle"
  /\ city = None
  /\ raw = None
  /\ forecast = None
  /\ activities = None
  /\ error = None
  /\ fetches = 0
  /\ thrown = None
  /\ calls = 0
  /\ suggestion = None
  /\ inflight = [r \in Requests |-> Waiting]

\* request r arrives: its city is built and getForecast awaits the client
StartRanking(r) ==
  /\ inflight[r].pc = "idle"
  /\ \E c \in Cities :
       inflight' = [inflight EXCEPT ![r] =
         [@ EXCEPT !.pc = "fetching",
                   !.args = c,
                   !.city = buildCityFromCoords(c.latitude, c.longitude, c.timezone)]]
  /\ UNCHANGED <<rankingRequest, suggestion>>

\* the fetch of request r resolves
FetchResolves(r) ==
  /\ inflight[r].pc = "fetching"
  /\ \E payload \in ConcurrentPayloads(inflight[r].city.timezone) :
       inflight' = [inflight EXCEPT ![r] = [@ EXCEPT !.pc = "fetched", !.raw = payload]]
  /\ UNCHANGED <<rankingRequest, suggestion>>

\* the fetch of request r rejects
FetchRejects(r) ==
  /\ inflight[r].pc = "fetching"
  /\ \E e \in {normaliseError("Weather forecast fetch failed", t) :
                 t \in {k \in TransportErrors : k.kind = "AxiosError" /\ ~IsDefined(k.response)}} :
       inflight' = [inflight EXCEPT ![r] = [@ EXCEPT !.pc = "failed", !.error = Some(e)]]
  /\ UNCHANGED <<rankingRequest, suggestion>>

\* getForecast of request r resumes and normalizes its payload
ForecastMapped(r) ==
  /\ inflight[r].pc = "fetched"
  /\ inflight' = [inflight EXCEPT ![r] =
       [@ EXCEPT !.pc = "normalized",
                 !.forecast = mapToForecast(cityArgument(inflight, r), inflight[r].raw)]]
  /\ UNCHANGED <<rankingRequest, suggestion>>

\* the resolver of request r resumes, ranks its forecast and responds
ActivitiesRanked(r) ==
  /\ inflight[r].pc = "normalized"
  /\ inflight' = [inflight EXCEPT ![r] =
       [@ EXCEPT !.pc = "done",
                 !.activities = rankActivities(inflight[r].forecast),
                 !.forecast = forecastAfterRank(inflight[r].forecast)]]
  /\ UNCHANGED <<rankingRequest, suggestion>>

NextConcurrent ==
  \E r \in Requests :
    \/ StartRanking(r)
    \/ FetchResolves(r)
    \/ FetchRejects(r)
    \/ ForecastMapped(r)
    \/ ActivitiesRanked(r)

SpecConcurrent == InitRequests /\ [][NextConcurrent]_vars

-----------------------------------------------------------------------------
(* The citySuggestions request *)

Queries == {"", " ", "A", " A ", "Ca", "  London  ", "a b"}

\* the `count` argument: omitted, or a number
Counts == {Undefined, Some(0), Some(1), Some(5), Some(20), Some(25)}

\* the most results the provider answers with
MaxResults == 3

\* the i-th result of the provider
GeocodingResult(i) ==
  [id           |-> 3369157 + i,
   name         |-> IF i = 1 THEN "Cape Town" ELSE "Cape Breton",
   latitude     |-> -34 + i,
   longitude    |-> 18,
   country      |-> IF i = 1 THEN "South Africa" ELSE "Canada",
   country_code |-> IF i = 1 THEN "ZA" ELSE "CA",
   timezone     |-> IF i = 1 THEN "Africa/Johannesburg" ELSE "America/Halifax",
   population   |-> IF i = 1 THEN Some(433688) ELSE Undefined,
   admin1       |-> IF i = 1 THEN Some("Western Cape") ELSE Undefined]

\* what the provider answers: no `results` at all, or a list of results
GeocodingResponses ==
  { [results |-> Undefined] }
  \cup
  { [results |-> Some([i \in 1..n |-> GeocodingResult(i)])] : n \in 0..MaxResults }

\* GeocodingService.mapToCity
mapToCity(r) ==
  [id          |-> r.id,
   name        |-> r.name,
   country     |-> r.country,
   countryCode |-> r.country_code,
   latitude    |-> r.latitude,
   longitude   |-> r.longitude,
   timezone    |-> r.timezone,
   population  |-> r.population,
   admin1      |-> r.admin1]

\* !response.results?.length ? [] : response.results.map(this.mapToCity)
mapResults(response) ==
  IF ~IsDefined(response.results) \/ Len(response.results[1]) = 0 THEN <<>>
  ELSE [i \in 1..Len(response.results[1]) |-> mapToCity(response.results[1][i])]

\* Math.min(count ?? 10, 20)
limitOf(count) == Min(IF IsDefined(count) THEN count[1] ELSE 10, 20)

TooShortAlways(query) == TRUE

\* !query || query.trim().length < 2
TooShort(query) == query = "" \/ Len(Trim(query)) < 2

\* citySuggestions is called: the resolver caps the count and calls
\* searchCities, which answers [] at once or awaits the client
CitySuggestions ==
  /\ suggestion = None
  /\ \E query \in Queries, count \in Counts :
       suggestion' =
         [query       |-> query,
          count       |-> count,
          limit       |-> limitOf(count),
          pc          |-> IF TooShort(query) THEN "done" ELSE "searching",
          clientCalls |-> IF TooShort(query) THEN <<>>
                          ELSE << [query |-> Trim(query), count |-> limitOf(count)] >>,
          response    |-> Undefined,
          cities      |-> <<>>,
          thrown      |-> Undefined,
          error       |-> Undefined]
  /\ UNCHANGED <<rankingRequest, inflight>>

\* client.searchCities resolves; searchCities maps the results and returns
SearchCitiesOk ==
  /\ suggestion # None
  /\ suggestion.pc = "searching"
  /\ \E response \in GeocodingResponses :
       suggestion' = [suggestion EXCEPT !.pc = "done",
                                        !.response = Some(response),
                                        !.cities = mapResults(response)]
  /\ UNCHANGED <<rankingRequest, inflight>>

\* client.searchCities rejects; neither searchCities nor the resolver catches
SearchCitiesFail ==
  /\ suggestion # None
  /\ suggestion.pc = "searching"
  /\ \E e \in TransportErrors :
       suggestion' =
         [suggestion EXCEPT !.pc = "failed",
                            !.thrown = Some(normaliseError("Geocoding search failed", e)),
                            !.error = Some(normaliseError("Geocoding search failed", e))]
  /\ UNCHANGED <<rankingRequest, inflight>>

\* the response has been sent
SuggestionsSent ==
  /\ suggestion # None
  /\ suggestion.pc \in {"done", "failed"}
  /\ suggestion' = None
  /\ UNCHANGED <<rankingRequest, inflight>>

NextSuggest ==
  \/ CitySuggestions
  \/ SearchCitiesOk
  \/ SearchCitiesFail
  \/ SuggestionsSent

SpecSuggest == Init /\ [][NextSuggest]_vars

-----------------------------------------------------------------------------
(* Properties of rankActivities *)

ActivityTypes == {"SKIING", "SURFING", "INDOOR_SIGHTSEEING", "OUTDOOR_SIGHTSEEING"}

\* the position of an activity type in the evaluation order
EvaluationIndex(type) ==
  CASE type = "SKIING" -> 1
    [] type = "SURFING" -> 2
    [] type = "INDOOR_SIGHTSEEING" -> 3
    [] type = "OUTDOOR_SIGHTSEEING" -> 4

Ranked == pc = "done"

\* the returned entry of the given type (used where C1 makes it unique)
EntryOf(type) ==
  activities[CHOOSE i \in 1..Len(activities) : activities[i].type = type]

\* C1: whatever the length of the hourly sequence, rankActivities returns
\* exactly 4 entries, and each of the four activity types appears exactly once.
C1_FourDistinctActivities ==
  Ranked =>
    /\ Len(activities) = 4
    /\ \A ty \in ActivityTypes :
         Cardinality({i \in 1..Len(activities) : activities[i].type = ty}) = 1
    /\ \A i \in 1..Len(activities) : activities[i].type \in ActivityTypes

\* C1 witness: a forecast longer than the window has been ranked into 4 entries
C1_Witness ==
  /\ Ranked
  /\ Len(forecast.hourly) > WindowHours
  /\ Len(activities) = 4
  /\ {activities[i].type : i \in 1..4} = ActivityTypes

\* C2: every returned score is an integer between 0 and 100 inclusive.
C2_ScoresInRange ==
  Ranked => \A i \in 1..Len(activities) : activities[i].score \in 0..100

\* C2 witness: both ends of the clamp act in one ranking (surfing would be
\* negative, indoor would exceed 100)
C2_Witness ==
  /\ Ranked
  /\ EntryOf("SURFING").score = 0
  /\ EntryOf("INDOOR_SIGHTSEEING").score = 100
  /\ Len(forecast.hourly) > 0

\* C3: an entry is flagged suitable exactly when its final score is >= 60.
C3_SuitableIffSixty ==
  Ranked =>
    \A i \in 1..Len(activities) :
      activities[i].suitable = (activities[i].score >= 60)

\* C3 witness: a ranking with a score of exactly 60 (suitable) and a lower,
\* unsuitable one
C3_Witness ==
  /\ Ranked
  /\ \E i, j \in 1..Len(activities) :
       /\ activities[i].score = 60 /\ activities[i].suitable
       /\ activities[j].score < 60 /\ ~activities[j].suitable

\* C4: the returned list is ordered by score, descending (equal scores allowed).
C4_SortedDescending ==
  Ranked =>
    \A i \in 1..(Len(activities) - 1) : activities[i].score >= activities[i + 1].score

\* C4 witness: four different scores, returned in the reverse of the
\* evaluation order
C4_Witness ==
  /\ Ranked
  /\ Len(activities) = 4
  /\ \A i \in 1..3 : activities[i].score > activities[i + 1].score
  /\ activities[1].type = "OUTDOOR_SIGHTSEEING"
  /\ activities[4].type = "SKIING"

\* C5: entries with equal scores keep the evaluation order skiing, surfing,
\* indoor, outdoor relative to each other.
C5_TiesInEvaluationOrder ==
  Ranked =>
    \A i, j \in 1..Len(activities) :
      (i < j /\ activities[i].score = activities[j].score)
        => EvaluationIndex(activities[i].type) < EvaluationIndex(activities[j].type)

\* C5 witness: two entries tie behind an entry that was evaluated after one
\* of them
C5_Witness ==
  /\ Ranked
  /\ \E i, j, k \in 1..Len(activities) :
       /\ k < i /\ i < j
       /\ activities[i].score = activities[j].score
       /\ activities[k].score > activities[i].score
       /\ EvaluationIndex(activities[k].type) > EvaluationIndex(activities[i].type)

\* C6: an empty hourly sequence is ranked as indoor 50, surfing 40, skiing 35,
\* outdoor 35, in that order, none of them suitable.
C6_EmptyHourly ==
  (Ranked /\ Len(forecast.hourly) = 0) =>
    /\ [i \in 1..Len(activities) |-> activities[i].type]
         = <<"INDOOR_SIGHTSEEING", "SURFING", "SKIING", "OUTDOOR_SIGHTSEEING">>
    /\ [i \in 1..Len(activities) |-> activities[i].score] = <<50, 40, 35, 35>>
    /\ \A i \in 1..Len(activities) : ~activities[i].suitable

\* C6 witness: a forecast without hourly records has been ranked
C6_Witness ==
  /\ Ranked
  /\ Len(forecast.hourly) = 0
  /\ Len(activities) = 4

\* C7: every returned reason is non-empty after trimming.
C7_ReasonsNotBlank ==
  Ranked => \A i \in 1..Len(activities) : Len(Trim(activities[i].reason)) > 0

\* C7 witness: no indoor rule fired and the reason is the generic one
C7_Witness ==
  /\ Ranked
  /\ Len(forecast.hourly) > 0
  /\ EntryOf("INDOOR_SIGHTSEEING").score = 50
  /\ EntryOf("INDOOR_SIGHTSEEING").reason
       = "moderate conditions - both indoor and outdoor activities viable"

\* hourly records a forecast could hold behind the window instead of its own
OtherTails ==
  LET storm == [time |-> 99, temperature2m |-> Some(-8), windspeed10m |-> Some(70),
                precipitation |-> Some(6), weathercode |-> Some(61),
                snowDepth |-> Some(40)]
      mild  == [storm EXCEPT !.temperature2m = Some(22), !.windspeed10m = Some(8),
                             !.precipitation = Some(0), !.weathercode = Some(1),
                             !.snowDepth = Undefined]
  IN  { <<>>, [i \in 1..WindowHours |-> storm], [i \in 1..WindowHours |-> mild] }

\* the forecasts that agree with fc on the first 24 hourly records and differ
\* in the later records, the current snapshot or the daily records
SameWindow(fc) ==
  { [fc EXCEPT !.hourly  = IF Len(@) >= WindowHours
                           THEN SubSeq(@, 1, WindowHours) \o tail ELSE @,
               !.current = IF swap THEN [@ EXCEPT !.temperature2m = Some(-40)] ELSE @,
               !.daily   = IF swap THEN <<>> ELSE @]
    : tail \in OtherTails, swap \in BOOLEAN }

\* C8: the ranking depends on the first min(24, n) hourly records only:
\* forecasts that agree on them rank the same, and up to 24 records all count.
C8_FirstDayOnly ==
  Ranked =>
    /\ \A other \in SameWindow(forecast) : rankActivities(other) = activities
    /\ Len(forecast.hourly) <= WindowHours
         => activities = sort(scoreAll(forecast.hourly))

\* C8 witness: a ranked forecast whose 25th record differs from its 24th
C8_Witness ==
  /\ Ranked
  /\ Len(forecast.hourly) > WindowHours
  /\ forecast.hourly[WindowHours + 1].temperature2m
       # forecast.hourly[WindowHours].temperature2m
  /\ activities = sort(scoreAll(SubSeq(forecast.hourly, 1, WindowHours)))

-----------------------------------------------------------------------------
(* Properties of mapToForecast *)

Normalized == pc \in {"normalized", "done"}

\* every required field array is at least as long as its time array
Aligned(r) ==
  /\ \A f \in {"temperature_2m", "windspeed_10m", "precipitation", "weathercode"} :
       Len(r.hourly[f]) >= Len(r.hourly.time)
  /\ \A f \in {"temperature_2m_max", "temperature_2m_min", "precipitation_sum",
               "windspeed_10m_max", "weathercode"} :
       Len(r.daily[f]) >= Len(r.daily.time)

\* every required field of every hourly and daily record holds a value
RequiredPresent(fc) ==
  /\ \A i \in 1..Len(fc.hourly) :
       \A f \in {"temperature2m", "windspeed10m", "precipitation", "weathercode"} :
         IsDefined(fc.hourly[i][f])
  /\ \A i \in 1..Len(fc.daily) :
       \A f \in {"temperatureMax", "temperatureMin", "precipitationSum",
                 "windspeedMax", "weathercode"} :
         IsDefined(fc.daily[i][f])

\* C9: a payload with a required field array shorter than its time array is
\* never turned into a forecast (normalization fails with a DataShapeError):
\* every forecast returned comes from an aligned payload, has one record per
\* time entry and no record without a required value.
C9_MisalignedRejected ==
  Normalized =>
    /\ Aligned(raw)
    /\ RequiredPresent(forecast)
    /\ Len(forecast.hourly) = Len(raw.hourly.time)
    /\ Len(forecast.daily) = Len(raw.daily.time)

\* C10: without a snow-depth array every hourly record has no snow depth;
\* with one, record i carries the array's i-th value.
C10_SnowDepthCarried ==
  Normalized =>
    \A i \in 1..Len(forecast.hourly) :
      IF IsDefined(raw.hourly.snow_depth)
      THEN i <= Len(raw.hourly.snow_depth[1])
             => forecast.hourly[i].snowDepth = Some(raw.hourly.snow_depth[1][i])
      ELSE forecast.hourly[i].snowDepth = Undefined

\* C10 witness: one payload without the array has been normalized into
\* records without a snow depth
C10_Witness ==
  /\ pc = "normalized"
  /\ ~IsDefined(raw.hourly.snow_depth)
  /\ Len(forecast.hourly) > 0
  /\ \A i \in 1..Len(forecast.hourly) : forecast.hourly[i].snowDepth = Undefined

\* a payload whose arrays, the optional one included, all cover the time array
WellFormed(r) ==
  /\ Aligned(r)
  /\ IsDefined(r.hourly.snow_depth)
       => Len(r.hourly.snow_depth[1]) >= Len(r.hourly.time)

\* C11: a well-formed payload is normalized record by record: hourly record i
\* holds element i of every hourly array, daily record i element i of every
\* daily array, current copies the payload's current fields, the city is the
\* given one and the timezone the payload's.
C11_RecordsCarried ==
  (Normalized /\ WellFormed(raw)) =>
    /\ Len(forecast.hourly) = Len(raw.hourly.time)
    /\ \A i \in 1..Len(raw.hourly.time) :
         forecast.hourly[i] =
           [time          |-> raw.hourly.time[i],
            temperature2m |-> Some(raw.hourly.temperature_2m[i]),
            windspeed10m  |-> Some(raw.hourly.windspeed_10m[i]),
            precipitation |-> Some(raw.hourly.precipitation[i]),
            weathercode   |-> Some(raw.hourly.weathercode[i]),
            snowDepth     |-> IF IsDefined(raw.hourly.snow_depth)
                              THEN Some(raw.hourly.snow_depth[1][i]) ELSE Undefined]
    /\ Len(forecast.daily) = Len(raw.daily.time)
    /\ \A i \in 1..Len(raw.daily.time) :
         forecast.daily[i] =
           [date             |-> raw.daily.time[i],
            temperatureMax   |-> Some(raw.daily.temperature_2m_max[i]),
            temperatureMin   |-> Some(raw.daily.temperature_2m_min[i]),
            precipitationSum |-> Some(raw.daily.precipitation_sum[i]),
            windspeedMax     |-> Some(raw.daily.windspeed_10m_max[i]),
            weathercode      |-> Some(raw.daily.weathercode[i])]
    /\ forecast.current =
         [time          |-> raw.current.time,
          temperature2m |-> Some(raw.current.temperature_2m),
          windspeed10m  |-> Some(raw.current.windspeed_10m),
          precipitation |-> Some(raw.current.precipitation),
          weathercode   |-> Some(raw.current.weathercode)]
    /\ forecast.city = city
    /\ forecast.timezone = raw.timezone

\* C11 witness: a mixed payload of 25 hours (its first and last hour differ)
\* has been normalized into 25 records
C11_Witness ==
  /\ pc = "normalized"
  /\ WellFormed(raw)
  /\ Len(forecast.hourly) > WindowHours
  /\ forecast.hourly[1].temperature2m # forecast.hourly[Len(forecast.hourly)].temperature2m
  /\ forecast.hourly[1].temperature2m = Some(raw.hourly.temperature_2m[1])
  /\ Len(forecast.daily) > 1

\* the timezone of the forecast is the provider's, not the requested one
C11_ProviderTimezone ==
  /\ pc = "normalized"
  /\ raw.timezone # city.timezone
  /\ forecast.timezone = raw.timezone

-----------------------------------------------------------------------------
(* Properties of the request *)

\* C12: a failed fetch rejects the request with the client's own error, the
\* client is called once per request, and a failed request has neither a
\* payload nor a forecast nor a ranking; a forecast exists only for a payload
\* that was obtained, a ranking only for a forecast.
C12_FailureStopsRequest ==
  /\ fetches <= 1
  /\ pc = "failed" =>
       /\ error = thrown
       /\ error \in FetchErrors
       /\ raw = None /\ forecast = None /\ activities = None
  /\ pc \in {"fetched", "normalized", "done"} => (raw # None /\ error = None)
  /\ forecast # None => raw # None
  /\ activities # None => forecast # None

\* once the fetch has failed nothing is computed: the next step ends the request
C12_NothingAfterFailure ==
  [][pc = "failed" => (pc' = "idle" /\ forecast' = None /\ activities' = None)]_vars

\* C12 witness: the request has failed with the client's error
C12_Witness ==
  /\ pc = "failed"
  /\ error = thrown
  /\ fetches = 1
  /\ forecast = None
  /\ activities = None

-----------------------------------------------------------------------------
(* Properties of the scorers, stated on the sums of the analysis window *)

\* the analysis window of the request's forecast
Window == next24h(forecast)

N == Len(Window)

\* the sum of a sequence of whole numbers
Total(vals) ==
  LET f[i \in 0..Len(vals)] == IF i = 0 THEN 0 ELSE f[i - 1] + vals[i]
  IN  f[Len(vals)]

TempTotal == Total([i \in 1..N |-> Window[i].temperature2m[1]])

WindTotal == Total([i \in 1..N |-> Window[i].windspeed10m[1]])

PrecipTotal == Total([i \in 1..N |-> Window[i].precipitation[1]])

\* an hour without a snow depth counts as 0
SnowTotal ==
  Total([i \in 1..N |-> IF Window[i].snowDepth = Undefined THEN 0
                        ELSE Window[i].snowDepth[1]])

ClearCount == Cardinality({i \in 1..N : Window[i].weathercode[1] <= 3})

\* mean >= p/q and mean > p/q for the mean total/N (q > 0); the mean of an
\* empty window is 0
MeanGe(total, p, q) == IF N = 0 THEN 0 >= p ELSE total * q >= p * N

MeanGt(total, p, q) == IF N = 0 THEN 0 > p ELSE total * q > p * N

MeanLe(total, p, q) == ~MeanGt(total, p, q)

MeanLt(total, p, q) == ~MeanGe(total, p, q)

\* clear hours / window hours >= p/q; an empty window has no clear share
ClearRatioGe(p, q) == N > 0 /\ ClearCount * q >= p * N

Floor0(x) == IF x < 0 THEN 0 ELSE x

Clamp100(x) == IF x < 0 THEN 0 ELSE IF x > 100 THEN 100 ELSE x

SkiingExpected ==
  LET temp   == IF MeanGe(TempTotal, -20, 1) /\ MeanLe(TempTotal, -2, 1) THEN 35
                ELSE IF MeanGt(TempTotal, -2, 1) /\ MeanLe(TempTotal, 2, 1) THEN 20
                ELSE 0
      snow   == IF MeanGe(SnowTotal, 30, 1) THEN 40
                ELSE IF MeanGe(SnowTotal, 10, 1) THEN 20
                ELSE 0
      wind   == IF MeanGt(WindTotal, 60, 1) THEN Floor0(temp + snow - 30)
                ELSE IF MeanLe(WindTotal, 30, 1) THEN temp + snow + 15
                ELSE temp + snow
      powder == IF /\ MeanGt(PrecipTotal, 0, 1) /\ MeanLe(PrecipTotal, 2, 1)
                   /\ MeanLt(TempTotal, 0, 1)
                THEN 10 ELSE 0
  IN  Clamp100(wind + powder)

StartsWith(s, prefix) ==
  Len(s) >= Len(prefix) /\ SubSeq(s, 1, Len(prefix)) = prefix

\* the temperature rule of scoreSurfing that fired, read from the first
\* fragment of the surfing reason
SurfingComfortable == StartsWith(EntryOf("SURFING").reason, "comfortable air temperature")

SurfingCool == StartsWith(EntryOf("SURFING").reason, "cool but manageable temperature")

SurfingCold ==
  /\ StartsWith(EntryOf("SURFING").reason, "cold temperature")
  /\ \E i \in 1..Len(EntryOf("SURFING").reason) :
       StartsWith(SubSeq(EntryOf("SURFING").reason, i, Len(EntryOf("SURFING").reason)),
                  "makes surfing uncomfortable")

\* the points the temperature rule that fired adds to the surfing score
SurfingTemperaturePoints ==
  IF SurfingComfortable THEN 30 ELSE IF SurfingCool THEN 15 ELSE 0

\* C14: the surfing temperature contribution is +30 exactly when the mean
\* temperature is in [18, 32], +15 exactly when it is in [12, 18), and +0 with
\* the cold reason exactly when it is below 12; no other temperature gets +15.
C14_SurfingTemperature ==
  Ranked =>
    /\ SurfingComfortable <=> (MeanGe(TempTotal, 18, 1) /\ MeanLe(TempTotal, 32, 1))
    /\ SurfingCool <=> (MeanGe(TempTotal, 12, 1) /\ MeanLt(TempTotal, 18, 1))
    /\ SurfingCold <=> MeanLt(TempTotal, 12, 1)

\* what the code does: every mean temperature from 12 up that is not in
\* [18, 32] gets the +15, the ones above 32 included
C14_CoolAboveBand ==
  Ranked =>
    /\ SurfingComfortable <=> (MeanGe(TempTotal, 18, 1) /\ MeanLe(TempTotal, 32, 1))
    /\ SurfingCool <=> (MeanGe(TempTotal, 12, 1) /\
                         ~(MeanGe(TempTotal, 18, 1) /\ MeanLe(TempTotal, 32, 1)))
    /\ SurfingCold <=> MeanLt(TempTotal, 12, 1)

\* a window of 33 C, ideal wind, dry and clear: 15 + 40 + 20 + 10
C14_HotGetsCool ==
  /\ Ranked
  /\ TempTotal = 33 * N /\ N > 0
  /\ SurfingCool
  /\ EntryOf("SURFING").score = 85

SurfingExpected ==
  LET t == SurfingTemperaturePoints
      w == IF MeanGe(WindTotal, 10, 1) /\ MeanLe(WindTotal, 30, 1) THEN t + 40
           ELSE IF MeanGt(WindTotal, 30, 1) /\ MeanLe(WindTotal, 50, 1) THEN t + 15
           ELSE IF MeanLt(WindTotal, 10, 1) THEN t + 20
           ELSE Floor0(t - 20)
      p == IF MeanLt(PrecipTotal, 1, 1) THEN 20
           ELSE IF MeanLt(PrecipTotal, 5, 1) THEN 10
           ELSE -10
      c == IF ClearRatioGe(6, 10) THEN 10 ELSE 0
  IN  Clamp100(w + p + c)

\* C15: with t the temperature contribution, the surfing score is the clamp to
\* [0, 100] of w + p + c: w is t+40 for wind in [10, 30], t+15 in (30, 50],
\* t+20 below 10 and max(0, t-20) above 50; p is +20 for precipitation below 1,
\* +10 in [1, 5) and -10 from 5, not floored; c is +10 for a clear ratio of at
\* least 0.6. A cold, stormy, rainy and clear window scores 0, not 10.
C15_SurfingScore ==
  Ranked =>
    /\ EntryOf("SURFING").score = SurfingExpected
    /\ ( /\ SurfingCold
         /\ MeanGt(WindTotal, 50, 1)
         /\ MeanGe(PrecipTotal, 5, 1)
         /\ ClearRatioGe(6, 10) ) => EntryOf("SURFING").score = 0

\* C15 witness: cold, wind above 50, 5 mm of rain and 6 clear hours of 10:
\* max(0, 0 - 20) - 10 + 10 = 0
C15_Witness ==
  /\ Ranked
  /\ SurfingCold
  /\ WindTotal > 50 * N
  /\ PrecipTotal >= 5 * N
  /\ N > 0 /\ 10 * ClearCount >= 6 * N
  /\ EntryOf("SURFING").score = 0

\* the unfloored sum of the four contributions of outdoor sightseeing
OutdoorSum ==
  LET temp   == IF MeanGe(TempTotal, 15, 1) /\ MeanLe(TempTotal, 28, 1) THEN 35
                ELSE IF MeanGe(TempTotal, 5, 1) /\ MeanLt(TempTotal, 15, 1) THEN 20
                ELSE IF MeanGt(TempTotal, 28, 1) /\ MeanLe(TempTotal, 35, 1) THEN 15
                ELSE 0
      clear  == IF ClearRatioGe(7, 10) THEN 30
                ELSE IF ClearRatioGe(4, 10) THEN 15
                ELSE 0
      precip == IF MeanLt(PrecipTotal, 1, 2) THEN 25
                ELSE IF MeanLt(PrecipTotal, 2, 1) THEN 10
                ELSE -15
      wind   == IF MeanGt(WindTotal, 50, 1) THEN -20
                ELSE IF MeanLt(WindTotal, 20, 1) THEN 10
                ELSE 0
  IN  temp + clear + precip + wind

\* C16: the outdoor sightseeing score is one final clamp to [0, 100] of the
\* unfloored sum of temperature (+35 in [15, 28], +20 in [5, 15), +15 in
\* (28, 35]), clear ratio (+30 from 0.7, +15 from 0.4), precipitation (+25
\* below 0.5, +10 below 2, -15 from 2) and wind (-20 above 50, +10 below 20);
\* no intermediate value is clamped.
C16_OutdoorScore ==
  Ranked => EntryOf("OUTDOOR_SIGHTSEEING").score = Clamp100(OutdoorSum)

\* C16 witness: nothing for temperature and sky, -15 for rain, +10 for calm
\* wind: the sum is -5 and the score 0 (10 if the -15 had been floored)
C16_Witness ==
  /\ Ranked
  /\ TempTotal > 35 * N
  /\ 10 * ClearCount < 4 * N
  /\ PrecipTotal >= 2 * N
  /\ WindTotal < 20 * N
  /\ OutdoorSum = -5
  /\ EntryOf("OUTDOOR_SIGHTSEEING").score = 0

IndoorRulesFired ==
  \/ MeanGe(PrecipTotal, 2, 1)
  \/ MeanLt(TempTotal, 0, 1)
  \/ MeanGt(TempTotal, 35, 1)
  \/ MeanGt(WindTotal, 60, 1)
  \/ ( /\ MeanLt(PrecipTotal, 1, 1)
       /\ MeanGe(TempTotal, 18, 1) /\ MeanLe(TempTotal, 28, 1)
       /\ MeanLt(WindTotal, 20, 1) )

IndoorExpected ==
  LET precip == IF MeanGe(PrecipTotal, 5, 1) THEN 30
                ELSE IF MeanGe(PrecipTotal, 2, 1) THEN 15
                ELSE 0
      temp   == IF MeanLt(TempTotal, 0, 1) THEN 20
                ELSE IF MeanGt(TempTotal, 35, 1) THEN 15
                ELSE 0
      wind   == IF MeanGt(WindTotal, 60, 1) THEN 15 ELSE 0
      great  == IF /\ MeanLt(PrecipTotal, 1, 1)
                   /\ MeanGe(TempTotal, 18, 1) /\ MeanLe(TempTotal, 28, 1)
                   /\ MeanLt(WindTotal, 20, 1)
                THEN 15 ELSE 0
  IN  Clamp100(50 + precip + temp + wind - great)

IndoorFallbackReason ==
  EntryOf("INDOOR_SIGHTSEEING").reason
    = "moderate conditions - both indoor and outdoor activities viable"

\* C17: the indoor sightseeing score is the clamp to [0, 100] of 50, plus 30
\* for precipitation from 5 or 15 in [2, 5), plus 20 for temperature below 0
\* or 15 above 35, plus 15 for wind above 60, minus 15 for precipitation below
\* 1 with temperature in [18, 28] and wind below 20; the generic fallback is
\* the reason exactly when none of these rules fired, and the score is then 50.
C17_IndoorScore ==
  Ranked =>
    /\ EntryOf("INDOOR_SIGHTSEEING").score = IndoorExpected
    /\ IndoorFallbackReason <=> ~IndoorRulesFired
    /\ IndoorFallbackReason => EntryOf("INDOOR_SIGHTSEEING").score = 50

\* C17 witness: 35 C, 60 km/h and 1.9 mm are each on the quiet side of their
\* threshold: no rule fires, the fallback is the reason and the score is 50
C17_Witness ==
  /\ Ranked
  /\ N > 0
  /\ TempTotal = 35 * N
  /\ WindTotal = 60 * N
  /\ PrecipTotal > N /\ PrecipTotal < 2 * N
  /\ IndoorFallbackReason
  /\ EntryOf("INDOOR_SIGHTSEEING").score = 50

\* the same hours under another wind
WithWind(hours, w) == [i \in 1..Len(hours) |-> [hours[i] EXCEPT !.windspeed10m = Some(w)]]

\* C18: of two windows with the same mean temperature, snow depth and
\* precipitation, the one with dangerous wind (above 60 km/h) has a strictly
\* lower skiing score than the one with calm wind (up to 30 km/h). The window
\* of the request is the windy one; the calm ones are its hours at 0, 15 and
\* 30 km/h (by C13 the score depends on the window through its means only).
C18_HighWindLowerThanCalm ==
  (Ranked /\ N > 0 /\ WindTotal > 60 * N) =>
    \A calm \in {0, 15, 30} :
      EntryOf("SKIING").score < scoreSkiing(WithWind(Window, calm)).score

\* C18 witness: ideal temperature, deep snow and powder score 55 in dangerous
\* wind and 100 in calm wind
C18_Witness ==
  /\ Ranked
  /\ N > 0 /\ WindTotal > 60 * N
  /\ EntryOf("SKIING").score = 55
  /\ scoreSkiing(WithWind(Window, 15)).score = 100

\* C19: in heavy rain (mean precipitation of at least 5 mm), whatever the
\* temperature, the wind and the weather codes, indoor sightseeing scores at
\* least 60, is suitable, and scores strictly more than outdoor sightseeing.
C19_HeavyRainIndoorWins ==
  (Ranked /\ MeanGe(PrecipTotal, 5, 1)) =>
    /\ EntryOf("INDOOR_SIGHTSEEING").score >= 60
    /\ EntryOf("INDOOR_SIGHTSEEING").suitable
    /\ EntryOf("INDOOR_SIGHTSEEING").score > EntryOf("OUTDOOR_SIGHTSEEING").score

\* C19 witness: heavy rain on an otherwise perfect day: outdoor reaches its
\* best in rain, 60, and indoor its least in rain, 80
C19_Witness ==
  /\ Ranked
  /\ N > 0 /\ PrecipTotal >= 5 * N
  /\ EntryOf("OUTDOOR_SIGHTSEEING").score = 60
  /\ EntryOf("INDOOR_SIGHTSEEING").score = 80

\* C20: on a non-empty window with mean temperature in [15, 28], mean wind
\* below 20, mean precipitation below 0.5 and a weather code of at most 3 in
\* every hour, outdoor sightseeing scores at least 70, is suitable, and scores
\* strictly more than indoor sightseeing.
C20_IdealOutdoorWins ==
  ( /\ Ranked /\ N > 0
    /\ MeanGe(TempTotal, 15, 1) /\ MeanLe(TempTotal, 28, 1)
    /\ MeanLt(WindTotal, 20, 1)
    /\ MeanLt(PrecipTotal, 1, 2)
    /\ ClearCount = N ) =>
    /\ EntryOf("OUTDOOR_SIGHTSEEING").score >= 70
    /\ EntryOf("OUTDOOR_SIGHTSEEING").suitable
    /\ EntryOf("OUTDOOR_SIGHTSEEING").score > EntryOf("INDOOR_SIGHTSEEING").score

\* C20 witness: 15 C (too cool for the indoor penalty), 19 km/h, 0.4 mm, all
\* hours clear: outdoor 100 against indoor 50
C20_Witness ==
  /\ Ranked
  /\ N > 0 /\ ClearCount = N
  /\ TempTotal = 15 * N
  /\ WindTotal = 19 * N
  /\ PrecipTotal > 0 /\ 2 * PrecipTotal < N
  /\ EntryOf("OUTDOOR_SIGHTSEEING").score = 100
  /\ EntryOf("INDOOR_SIGHTSEEING").score = 50

-----------------------------------------------------------------------------
(* Further properties of the scorers *)

\* the text occurs in the string
Contains(s, sub) ==
  \E i \in 1..(Len(s) - Len(sub) + 1) : SubSeq(s, i, i + Len(sub) - 1) = sub

\* the temperature rule of scoreSkiing that fired, read from the skiing reason
SkiingIdeal == Contains(EntryOf("SKIING").reason, "is ideal for snow")

SkiingMarginal == Contains(EntryOf("SKIING").reason, "is marginal for snow")

\* C27: skiing awards the +35 "ideal" contribution exactly when the mean
\* temperature is in [-15, -2]; a mean temperature in [-20, -15) or (-2, 2]
\* receives only the +20 contribution.
C27_IdealFromMinusFifteen ==
  Ranked =>
    /\ SkiingIdeal <=> (MeanGe(TempTotal, -15, 1) /\ MeanLe(TempTotal, -2, 1))
    /\ SkiingMarginal <=>
         \/ (MeanGe(TempTotal, -20, 1) /\ MeanLt(TempTotal, -15, 1))
         \/ (MeanGt(TempTotal, -2, 1) /\ MeanLe(TempTotal, 2, 1))

\* what the code does: "ideal" reaches down to -20 C
C27_IdealFromMinusTwenty ==
  Ranked =>
    /\ SkiingIdeal <=> (MeanGe(TempTotal, -20, 1) /\ MeanLe(TempTotal, -2, 1))
    /\ SkiingMarginal <=> (MeanGt(TempTotal, -2, 1) /\ MeanLe(TempTotal, 2, 1))

\* a window of -20 C without snow, wind and precipitation between the bands:
\* the score is the temperature contribution alone, 35
C27_MinusTwentyIsIdeal ==
  /\ Ranked
  /\ N > 0 /\ TempTotal = -20 * N
  /\ SkiingIdeal
  /\ EntryOf("SKIING").score = 35

\* C29: whenever the mean wind exceeds 60 km/h, skiing scores at most 55 and
\* surfing at most 40, so neither is flagged suitable, whatever the
\* temperature, snow depth, precipitation and weather codes are.
C29_DangerousWindUnsuitable ==
  (Ranked /\ MeanGt(WindTotal, 60, 1)) =>
    /\ EntryOf("SKIING").score <= 55
    /\ EntryOf("SURFING").score <= 40
    /\ ~EntryOf("SKIING").suitable
    /\ ~EntryOf("SURFING").suitable

\* C29 witness: in dangerous wind skiing reaches its highest score, 55, on a
\* window where surfing gets 0 + 20 + 10
C29_Witness ==
  /\ Ranked
  /\ N > 0 /\ WindTotal > 60 * N
  /\ EntryOf("SKIING").score = 55
  /\ ~EntryOf("SKIING").suitable
  /\ EntryOf("SURFING").score = 30
  /\ ~EntryOf("SURFING").suitable

\* in dangerous wind surfing reaches at most 40
C29_SurfingAtForty ==
  /\ Ranked
  /\ N > 0 /\ WindTotal > 60 * N
  /\ EntryOf("SURFING").score = 40

\* C30: with a mean snow depth below 10 (also when no record has a snow
\* depth) the skiing score never exceeds 60, and skiing is suitable only if
\* the ideal-temperature, calm-wind and powder contributions all apply; the
\* score is then exactly 60.
C30_LittleSnowCapsSkiing ==
  (Ranked /\ MeanLt(SnowTotal, 10, 1)) =>
    /\ EntryOf("SKIING").score <= 60
    /\ EntryOf("SKIING").suitable =>
         /\ SkiingIdeal
         /\ Contains(EntryOf("SKIING").reason, "calm winds")
         /\ Contains(EntryOf("SKIING").reason, "light snowfall expected")
         /\ EntryOf("SKIING").score = 60

\* C30 witness: no record has a snow depth, and the three contributions make
\* skiing just suitable
C30_Witness ==
  /\ Ranked
  /\ N > 0
  /\ \A i \in 1..N : Window[i].snowDepth = Undefined
  /\ EntryOf("SKIING").suitable
  /\ EntryOf("SKIING").score = 60

\* the string ends with the given text
EndsWith(s, suffix) ==
  Len(s) >= Len(suffix) /\ SubSeq(s, Len(s) - Len(suffix) + 1, Len(s)) = suffix

\* the fragments of a reason: the parts between its "; " separators
Fragments(reason) ==
  LET seps   == {i \in 1..(Len(reason) - 1) : SubSeq(reason, i, i + 1) = "; "}
      nth(k) == CHOOSE i \in seps : Cardinality({j \in seps : j < i}) = k - 1
      count  == Cardinality(seps) + 1
  IN  [k \in 1..count |->
         SubSeq(reason,
                IF k = 1 THEN 1 ELSE nth(k - 1) + 2,
                IF k = count THEN Len(reason) ELSE nth(k) - 1)]

\* the fragment of a rule: its position in the rule order, the text around the
\* printed number (post = "" for a fixed text), and what the rule does to the
\* score ("floor": subtract, then floor at 0)
Fragment(rule, pre, post, op, points) ==
  [rule |-> rule, pre |-> pre, post |-> post, op |-> op, points |-> points]

SkiingFragments ==
  { Fragment(1, "temperature ", "C is ideal for snow", "add", 35),
    Fragment(1, "temperature ", "C is marginal for snow", "add", 20),
    Fragment(1, "temperature ", "C is too warm for skiing", "add", 0),
    Fragment(1, "temperature ", "C is too extreme for skiing", "add", 0),
    Fragment(2, "good snow depth (", " cm)", "add", 40),
    Fragment(2, "moderate snow depth (", " cm)", "add", 20),
    Fragment(2, "insufficient snow depth", "", "add", 0),
    Fragment(3, "high winds (", " km/h) are dangerous", "floor", 30),
    Fragment(3, "calm winds", "", "add", 15),
    Fragment(4, "light snowfall expected (fresh powder)", "", "add", 10) }

SurfingFragments ==
  { Fragment(1, "comfortable air temperature (", "C)", "add", 30),
    Fragment(1, "cool but manageable temperature (", "C)", "add", 15),
    Fragment(1, "cold temperature (", "C) makes surfing uncomfortable", "add", 0),
    Fragment(2, "ideal wind speed (", " km/h) for waves", "add", 40),
    Fragment(2, "strong winds (", " km/h) - experienced surfers only", "add", 15),
    Fragment(2, "light winds (", " km/h) - flat water likely", "add", 20),
    Fragment(2, "dangerous winds (", " km/h)", "floor", 20),
    Fragment(3, "dry conditions", "", "add", 20),
    Fragment(3, "light rain expected", "", "add", 10),
    Fragment(3, "heavy rain expected", "", "add", -10),
    Fragment(4, "mostly clear skies", "", "add", 10) }

IndoorFragments ==
  { Fragment(1, "heavy rain (", " mm/h) makes indoors appealing", "add", 30),
    Fragment(1, "moderate rain expected", "", "add", 15),
    Fragment(2, "freezing temperatures (", "C) favour indoor activities", "add", 20),
    Fragment(2, "extreme heat (", "C) - air-conditioned venues recommended", "add", 15),
    Fragment(3, "strong winds make outdoor activities unsafe", "", "add", 15),
    Fragment(4, "beautiful outdoor conditions - consider going outside!", "", "add", -15),
    Fragment(5, "moderate conditions - both indoor and outdoor activities viable", "",
             "add", 0) }

OutdoorFragments ==
  { Fragment(1, "pleasant temperature (", "C)", "add", 35),
    Fragment(1, "cool but walkable (", "C) - bring a jacket", "add", 20),
    Fragment(1, "warm (", "C) - stay hydrated", "add", 15),
    Fragment(1, "temperature (", "C) is not ideal for outdoor sightseeing", "add", 0),
    Fragment(2, "mostly clear skies", "", "add", 30),
    Fragment(2, "partly cloudy", "", "add", 15),
    Fragment(2, "overcast conditions", "", "add", 0),
    Fragment(3, "dry conditions", "", "add", 25),
    Fragment(3, "light rain possible - bring an umbrella", "", "add", 10),
    Fragment(3, "rain expected (", " mm/h)", "add", -15),
    Fragment(4, "strong winds (", " km/h)", "add", -20),
    Fragment(4, "calm winds", "", "add", 10) }

\* the text is the fragment of the given rule
Matches(text, e) ==
  IF e.post = "" THEN text = e.pre
  ELSE /\ Len(text) >= Len(e.pre) + Len(e.post)
       /\ StartsWith(text, e.pre)
       /\ EndsWith(text, e.post)

\* the score the rules behind the fragments produce, applied in their order
Replay(start, frs, table) ==
  LET rule(k) == CHOOSE e \in table : Matches(frs[k], e)
      g[k \in 0..Len(frs)] ==
        IF k = 0 THEN start
        ELSE IF rule(k).op = "floor" THEN Floor0(g[k - 1] - rule(k).points)
        ELSE g[k - 1] + rule(k).points
  IN  g[Len(frs)]

\* the reason of the activity consists of fragments of its rules, one per rule
\* at most and in rule order, and they account for the whole score
ReasonFollowsRules(type, start, table) ==
  LET frs     == Fragments(EntryOf(type).reason)
      rule(k) == CHOOSE e \in table : Matches(frs[k], e)
  IN  /\ \A k \in 1..Len(frs) : Cardinality({e \in table : Matches(frs[k], e)}) = 1
      /\ \A k \in 1..(Len(frs) - 1) : rule(k).rule < rule(k + 1).rule
      /\ EntryOf(type).score = Clamp100(Replay(start, frs, table))

\* C28: in every model the reason lists the fragments of the rules that
\* produced one, in the model's rule order and at most one per rule (skiing:
\* temperature, snow, wind, powder; surfing: temperature, wind, precipitation,
\* clear sky; indoor: precipitation, temperature, wind, great-weather penalty,
\* or the fallback alone; outdoor: temperature, clear ratio, precipitation,
\* wind); the order never follows the size of the contributions, and every
\* non-zero contribution has its fragment, so the fragments yield the score.
C28_ReasonInRuleOrder ==
  Ranked =>
    /\ ReasonFollowsRules("SKIING", 0, SkiingFragments)
    /\ ReasonFollowsRules("SURFING", 0, SurfingFragments)
    /\ ReasonFollowsRules("INDOOR_SIGHTSEEING", 50, IndoorFragments)
    /\ ReasonFollowsRules("OUTDOOR_SIGHTSEEING", 0, OutdoorFragments)
    /\ IndoorFallbackReason \/
         ~Contains(EntryOf("INDOOR_SIGHTSEEING").reason, "moderate conditions")

\* C28 witness: a skiing reason of four fragments whose contributions are
\* 20, 40, 15 and 10, in rule order and not by size
C28_Witness ==
  /\ Ranked
  /\ Len(Fragments(EntryOf("SKIING").reason)) = 4
  /\ EndsWith(Fragments(EntryOf("SKIING").reason)[1], "C is marginal for snow")
  /\ StartsWith(Fragments(EntryOf("SKIING").reason)[2], "good snow depth (")
  /\ Fragments(EntryOf("SKIING").reason)[3] = "calm winds"
  /\ Fragments(EntryOf("SKIING").reason)[4] = "light snowfall expected (fresh powder)"
  /\ EntryOf("SKIING").score = 85

-----------------------------------------------------------------------------
(* Independence and purity *)

\* the same hours with another weather code, or with another snow depth
WithCode(hours, code) == [i \in 1..Len(hours) |-> [hours[i] EXCEPT !.weathercode = code]]

WithSnow(hours, depth) == [i \in 1..Len(hours) |-> [hours[i] EXCEPT !.snowDepth = depth]]

\* C21: each activity's score and reason depend on the analysis window only,
\* never on another model's output or on the evaluation order: every returned
\* entry is what its model gives when evaluated alone on the window, other
\* weather codes leave the skiing and indoor results as they are, and other
\* snow depths (none included) leave the surfing, indoor and outdoor results
\* as they are.
C21_ModelsIndependent ==
  Ranked =>
    /\ EntryOf("SKIING") = scoreSkiing(Window)
    /\ EntryOf("SURFING") = scoreSurfing(Window)
    /\ EntryOf("INDOOR_SIGHTSEEING") = scoreIndoorSightseeing(Window)
    /\ EntryOf("OUTDOOR_SIGHTSEEING") = scoreOutdoorSightseeing(Window)
    /\ \A code \in {Some(0), Some(95)} :
         /\ scoreSkiing(WithCode(Window, code)) = EntryOf("SKIING")
         /\ scoreIndoorSightseeing(WithCode(Window, code)) = EntryOf("INDOOR_SIGHTSEEING")
    /\ \A depth \in {Undefined, Some(5), Some(80)} :
         /\ scoreSurfing(WithSnow(Window, depth)) = EntryOf("SURFING")
         /\ scoreIndoorSightseeing(WithSnow(Window, depth)) = EntryOf("INDOOR_SIGHTSEEING")
         /\ scoreOutdoorSightseeing(WithSnow(Window, depth)) = EntryOf("OUTDOOR_SIGHTSEEING")

\* C21 witness: on a full day of rain and deep snow the weather codes decide
\* the outdoor score and the snow decides the skiing score, and nothing else
C21_Witness ==
  /\ Ranked
  /\ N = WindowHours
  /\ scoreOutdoorSightseeing(WithCode(Window, Some(0))).score
       > EntryOf("OUTDOOR_SIGHTSEEING").score
  /\ scoreSkiing(WithSnow(Window, Undefined)).score < EntryOf("SKIING").score
  /\ scoreIndoorSightseeing(WithCode(Window, Some(0))) = EntryOf("INDOOR_SIGHTSEEING")
  /\ scoreSurfing(WithSnow(Window, Undefined)) = EntryOf("SURFING")

\* C22: rankActivities is pure: however often it is called on a forecast, it
\* returns the ranked list of the first call, and after every call the
\* forecast (hourly records, current, daily, city, timezone) is the one that
\* was normalized from the payload.
C22_RankActivitiesPure ==
  calls >= 1 =>
    /\ forecast = mapToForecast(city, raw)
    /\ Len(forecast.hourly) = Len(raw.hourly.time)
    /\ activities = rankActivities(mapToForecast(city, raw))

\* C22 witness: rankActivities has been called three times on a forecast of
\* 25 hours whose last hour differs from its first
C22_Witness ==
  /\ calls = 3
  /\ Len(forecast.hourly) > WindowHours
  /\ forecast.hourly[1].temperature2m # forecast.hourly[Len(forecast.hourly)].temperature2m
  /\ activities = rankActivities(forecast)

\* C26: every failed getWeatherForecast call rejects with an Error whose
\* message starts with "Weather forecast fetch failed" (every failed
\* searchCities call with "Geocoding search failed"), whatever the transport
\* raised: an HTTP status error, a network error or any other thrown value.
C26_FailureCarriesContext ==
  pc = "failed" => StartsWith(error, "Weather forecast fetch failed")

\* what the code does: the context is there unless the transport raised an
\* Error that is no AxiosError, which is passed on as it is
C26_ContextUnlessPlainError ==
  pc = "failed" =>
    \/ StartsWith(error, "Weather forecast fetch failed: ")
    \/ error \in {e.message : e \in {t \in TransportErrors : t.kind = "Error"}}

\* the request failed with the transport's own Error
C26_PlainErrorUnchanged ==
  /\ pc = "failed"
  /\ error = "socket hang up"

-----------------------------------------------------------------------------
(* Properties of the citySuggestions request *)

\* the query without the spaces around it
Core(q) ==
  LET inked == {i \in 1..Len(q) : SubSeq(q, i, i) # " "}
  IN  IF inked = {} THEN ""
      ELSE SubSeq(q, CHOOSE i \in inked : \A j \in inked : i <= j,
                     CHOOSE i \in inked : \A j \in inked : i >= j)

\* C24: searchCities with a query that is empty or shorter than 2 characters
\* after trimming resolves to an empty list and never calls the client; for
\* any other query the client is called exactly once, with the trimmed query
\* and the given count, an absent or empty result list maps to an empty list,
\* and a client error is propagated unchanged.
C24_SearchCitiesGuard ==
  suggestion # None =>
    IF Len(Core(suggestion.query)) < 2
    THEN /\ suggestion.pc = "done"
         /\ suggestion.clientCalls = <<>>
         /\ suggestion.cities = <<>>
    ELSE /\ suggestion.clientCalls =
              << [query |-> Core(suggestion.query), count |-> suggestion.limit] >>
         /\ ( /\ suggestion.pc = "done"
              /\ \/ ~IsDefined(suggestion.response[1].results)
                 \/ suggestion.response[1].results = Some(<<>>) )
            => suggestion.cities = <<>>
         /\ suggestion.pc = "failed" =>
              /\ IsDefined(suggestion.thrown)
              /\ suggestion.error = suggestion.thrown
         /\ suggestion.pc # "failed" => ~IsDefined(suggestion.error)

\* C24 witness: "  London  " was searched as "London" with the default count
\* and the provider answered without a result list
C24_Witness ==
  /\ suggestion # None
  /\ suggestion.pc = "done"
  /\ suggestion.query = "  London  "
  /\ suggestion.clientCalls = << [query |-> "London", count |-> 10] >>
  /\ ~IsDefined(suggestion.response[1].results)
  /\ suggestion.cities = <<>>

\* a query of one character between spaces was answered without the client
C24_ShortQueryAnswered ==
  /\ suggestion # None
  /\ suggestion.query = " A "
  /\ suggestion.pc = "done"
  /\ suggestion.clientCalls = <<>>

\* C25: citySuggestions returns at most `count` cities, at most 10 when count
\* is omitted and never more than 20, however many results the provider
\* returns.
C25_AtMostCount ==
  (suggestion # None /\ suggestion.pc = "done") =>
    /\ IsDefined(suggestion.count) => Len(suggestion.cities) <= suggestion.count[1]
    /\ ~IsDefined(suggestion.count) => Len(suggestion.cities) <= 10
    /\ Len(suggestion.cities) <= 20

\* what the code does: the cap only goes into the provider's `count`
\* parameter; every result the provider returns is returned
C25_AllResultsReturned ==
  (suggestion # None /\ suggestion.pc = "done" /\ IsDefined(suggestion.response)) =>
    /\ suggestion.clientCalls[1].count
         = (IF ~IsDefined(suggestion.count) THEN 10
            ELSE IF suggestion.count[1] > 20 THEN 20 ELSE suggestion.count[1])
    /\ IsDefined(suggestion.response[1].results) =>
         Len(suggestion.cities) = Len(suggestion.response[1].results[1])

\* count 1 was requested and two cities were returned
C25_TwoForOne ==
  /\ suggestion # None
  /\ suggestion.pc = "done"
  /\ suggestion.count = Some(1)
  /\ Len(suggestion.cities) = 2

\* the geocoding half of C26: a failed search carries its context
C26_SearchFailureCarriesContext ==
  (suggestion # None /\ suggestion.pc = "failed") =>
    StartsWith(suggestion.error[1], "Geocoding search failed")

-----------------------------------------------------------------------------
(* Properties of concurrent requests *)

\* what request r gets when it runs alone with its arguments and its payload
AloneCity(r) ==
  buildCityFromCoords(inflight[r].args.latitude, inflight[r].args.longitude,
                      inflight[r].args.timezone)

AloneForecast(r) == mapToForecast(AloneCity(r), inflight[r].raw)

\* C23: when several activityRanking requests are in flight and their fetches
\* complete in any interleaving, each response holds the city of its own
\* request, the forecast fetched for that request and the activities computed
\* from exactly that forecast: the response the request gets when run alone.
C23_RequestsIsolated ==
  \A r \in Requests :
    /\ inflight[r].pc \notin {"idle"} => inflight[r].city = AloneCity(r)
    /\ inflight[r].pc \in {"normalized", "done"} =>
         /\ inflight[r].forecast = AloneForecast(r)
         /\ inflight[r].forecast.city = inflight[r].city
    /\ inflight[r].pc = "done" =>
         inflight[r].activities = rankActivities(AloneForecast(r))
    /\ inflight[r].pc = "failed" =>
         (inflight[r].forecast = None /\ inflight[r].activities = None)

\* C23 witness: two requests for different cities, the second started and
\* fetched while the first was waiting, have both responded, each with its
\* own city, forecast and ranking
C23_Witness ==
  /\ inflight[1].pc = "done"
  /\ inflight[2].pc = "done"
  /\ inflight[1].args # inflight[2].args
  /\ inflight[1].raw.hourly # inflight[2].raw.hourly
  /\ inflight[1].forecast.city = inflight[1].city
  /\ inflight[2].forecast.city = inflight[2].city
  /\ inflight[1].forecast.city # inflight[2].forecast.city
  /\ inflight[1].activities # inflight[2].activities

====
